---- MODULE Spec2Model ----
(***************************************************************************)
(* A model of process_channel_and_forwarding_data.py: the timestamp        *)
(* resolver get_tx_timestamp (cache, bounded retry), the channel pass, the *)
(* forwarding pass and the metrics/ranking step of                         *)
(* process_channel_and_forwarding_data.                                    *)
(*                                                                         *)
(* Python values are modelled as follows.                                  *)
(*   - None / a missing key / the empty string of an alias: "" (all are    *)
(*     falsy and the code only ever tests an alias for truthiness or       *)
(*     compares two truthy aliases).                                       *)
(*   - a value handed to int(): a record [k, v], k in "int", "str",        *)
(*     "none" ("str" is a string int() cannot parse).                      *)
(*   - a datetime: [k |-> "dt", v |-> seconds since the epoch]; None as a  *)
(*     timestamp: [k |-> "none", v |-> 0].                                 *)
(*   - a float: an exact rational [n, d] with d > 0; [n |-> 0, d |-> 0]    *)
(*     stands for the ZeroDivisionError a division by zero raises.         *)
(*   - a dict: a sequence of entries in insertion order.                   *)
(***************************************************************************)
EXTENDS Integers, Sequences, FiniteSets, TLC

\* ------------------------------------------------------------- bounds
\* calls of get_tx_timestamp a caller makes (SpecResolver)
MaxCalls == 2
\* channel records plus forwarding events of one run (Spec)
MaxRecords == 2

\* ---------------------------------------------------- program constants
max_retries == 3
MsatPerSat == 1000
SecondsPerDay == 60 * 60 * 24
current_time_utc == 2

\* ------------------------------------------------------- input domains
Aliases == {"a", "b", "c"}
AliasValues == Aliases \cup {""}
Txids == {1, 2}
NoTxid == 0

IntVal(n) == [k |-> "int", v |-> n]
StrVal == [k |-> "str", v |-> 0]
NoneVal == [k |-> "none", v |-> 0]
DateTime(ts) == [k |-> "dt", v |-> ts]

LocalBalanceValues == {IntVal(-1), IntVal(1), StrVal}
FeeValues == {IntVal(-1000), IntVal(1000), StrVal}

\* channel_point "txid:index"; txid = NoTxid stands for a missing channel_point
ChannelPoints == [txid : Txids \cup {NoTxid}, index : {0}]
ChannelRecords ==
    [peer_alias : AliasValues, channel_point : ChannelPoints,
     local_balance : LocalBalanceValues]
ForwardingEvents ==
    [peer_alias_in : AliasValues, peer_alias_out : AliasValues, fee_msat : FeeValues]

\* The block a transaction is confirmed in is a fact of the chain: transaction 1
\* was confirmed before the run, transaction 2 carries a block_time after it.
BlockTime(t) == IF t = 1 THEN current_time_utc - 1 ELSE current_time_utc + 1

\* What one requests.get / raise_for_status / response.json() can produce.
ResponseKinds ==
    {"transport_error", "http_error", "bad_json_request_exception",
     "bad_json_value_error", "falsy_body", "no_status", "status_not_mapping",
     "unconfirmed", "confirmed", "confirmed_no_block_time"}
Responses(t) == [kind : ResponseKinds, block_time : {BlockTime(t)}]

VARIABLES
    tx_timestamp_cache, \* the global cache: txid -> datetime, NoneVal when absent
    rpc,                \* get_tx_timestamp: "idle", "attempt", "returned", "raised"
    txid,               \* its argument
    attempt,            \* its loop variable
    ret,                \* its return value
    resps,              \* the kinds of the responses to the external calls of this call
    slept,              \* the time.sleep arguments of this call
    callLog,            \* the returned calls, in order: [txid, ret, ext]
    pc,                 \* process_channel_and_forwarding_data's position
    chanLog,            \* the channel records iterated so far, with the age computed
    event,              \* the loop variable of the forwarding loop
    nEvents,            \* the forwarding events iterated so far
    seen,               \* the names in the order a record first carried them
    peer_data,          \* the dict peer_data, in insertion order
    sorted_peers        \* the list sorted_peers after the sort

vars ==
    <<tx_timestamp_cache, rpc, txid, attempt, ret, resps, slept, callLog, pc,
      chanLog, event, nEvents, seen, peer_data, sorted_peers>>
frameVars == <<rpc, txid, attempt, ret, resps, slept>>
reportVars == <<pc, chanLog, event, nEvents, seen, peer_data, sorted_peers>>

\* ===================================================== get_tx_timestamp

RECURSIVE Pow2(_)
\* 2 ** n
Pow2(n) == IF n = 0 THEN 1 ELSE 2 * Pow2(n - 1)

\* txid in tx_timestamp_cache
InCache(cache, t) == cache[t] # NoneVal

\* a faulty variant of CacheStore: the confirmed timestamp is never stored
CacheStoreDropped(cache, t, dt) == cache

\* tx_timestamp_cache[txid] = dt_object; only a confirmed timestamp is ever stored
CacheStore(cache, t, dt) == [cache EXCEPT ![t] = dt]

\* a faulty variant of RaisesRequestException: an unconfirmed answer is raised as an error too
RaisesOnUnconfirmed(resp) ==
    resp.kind \in {"transport_error", "http_error", "bad_json_request_exception",
                   "unconfirmed"}

\* requests.get, raise_for_status or response.json() raises a RequestException:
\* a transport error or timeout, a 4xx/5xx status, or (requests >= 2.27) a body
\* that is not JSON, whose JSONDecodeError derives from RequestException.
RaisesRequestException(resp) ==
    resp.kind \in {"transport_error", "http_error", "bad_json_request_exception"}

\* An exception that `except requests.exceptions.RequestException` does not catch:
\* the ValueError an older requests raises for a body that is not JSON, the
\* AttributeError of tx_data['status'].get when status is no mapping, the KeyError
\* of ['block_time'] on a confirmed status without it.
RaisesOther(resp) ==
    resp.kind \in {"bad_json_value_error", "status_not_mapping", "confirmed_no_block_time"}

\* tx_data and 'status' in tx_data and tx_data['status'].get('confirmed')
IsConfirmed(resp) == resp.kind \in {"confirmed", "confirmed_no_block_time"}

\* datetime.fromtimestamp(timestamp_unix, tz=timezone.utc)
FromTimestamp(resp) == DateTime(resp.block_time)

\* a faulty variant of RetriesLeft: the last retry is given up one attempt early
RetriesLeftOneShort(a) == a < max_retries - 2

\* attempt < max_retries - 1: sleep and go round again
RetriesLeft(a) == a < max_retries - 1

\* range(max_retries) has a next value after a
RangeHasNext(a) == a + 1 < max_retries

\* One iteration of the retry loop, with attempt = a and the lookup answering resp:
\* where the call stands after it (rpc), the next attempt, the value returned, the
\* cache, and what was slept.
AttemptStep(cache, t, a, resp) ==
    IF RaisesRequestException(resp)
    THEN IF RetriesLeft(a)
         THEN [rpc |-> IF RangeHasNext(a) THEN "attempt" ELSE "returned",
               attempt |-> IF RangeHasNext(a) THEN a + 1 ELSE a,
               ret |-> NoneVal, cache |-> cache, sleep |-> <<Pow2(a)>>]
         ELSE [rpc |-> "returned", attempt |-> a, ret |-> NoneVal, cache |-> cache,
               sleep |-> <<>>]
    ELSE IF RaisesOther(resp)
    THEN [rpc |-> "raised", attempt |-> a, ret |-> NoneVal, cache |-> cache,
          sleep |-> <<>>]
    ELSE IF IsConfirmed(resp)
    THEN [rpc |-> "returned", attempt |-> a, ret |-> FromTimestamp(resp),
          cache |-> CacheStore(cache, t, FromTimestamp(resp)), sleep |-> <<>>]
    ELSE [rpc |-> "returned", attempt |-> a, ret |-> NoneVal, cache |-> cache,
          sleep |-> <<>>]

\* The call get_tx_timestamp(t): a cache hit returns at once, a miss enters the loop.
GetTxTimestampEnter(t) ==
    /\ txid' = t
    /\ attempt' = 0
    /\ resps' = <<>>
    /\ slept' = <<>>
    /\ IF InCache(tx_timestamp_cache, t)
       THEN rpc' = "returned" /\ ret' = tx_timestamp_cache[t]
       ELSE rpc' = "attempt" /\ ret' = NoneVal

\* The frame of get_tx_timestamp is gone once its caller has the result.
FrameReset ==
    /\ rpc' = "idle"
    /\ txid' = NoTxid
    /\ attempt' = 0
    /\ ret' = NoneVal
    /\ resps' = <<>>
    /\ slept' = <<>>

\* The iteration of the loop the call stands at, the lookup answering resp.
DoAttempt(resp) ==
    LET o == AttemptStep(tx_timestamp_cache, txid, attempt, resp)
    IN  /\ rpc = "attempt"
        /\ rpc' = o.rpc
        /\ attempt' = o.attempt
        /\ ret' = o.ret
        /\ tx_timestamp_cache' = o.cache
        /\ slept' = slept \o o.sleep
        /\ resps' = Append(resps, resp.kind)
        /\ UNCHANGED <<txid, callLog, reportVars>>

\* An iteration whose lookup raises a RequestException: back off and go round
\* again, or give up with None after the last attempt.
AttemptRequestException ==
    \E resp \in Responses(txid) : RaisesRequestException(resp) /\ DoAttempt(resp)

\* An iteration whose lookup reports the transaction confirmed, with its block_time.
AttemptConfirmed ==
    \E resp \in Responses(txid) :
        ~RaisesRequestException(resp) /\ ~RaisesOther(resp) /\ IsConfirmed(resp)
            /\ DoAttempt(resp)

\* An iteration whose lookup answers without a confirmed status: None, no retry.
AttemptNotConfirmed ==
    \E resp \in Responses(txid) :
        ~RaisesRequestException(resp) /\ ~RaisesOther(resp) /\ ~IsConfirmed(resp)
            /\ DoAttempt(resp)

\* An iteration that raises what the except clause does not catch: the exception
\* leaves get_tx_timestamp.
AttemptUncaught ==
    \E resp \in Responses(txid) :
        ~RaisesRequestException(resp) /\ RaisesOther(resp) /\ DoAttempt(resp)

\* Some caller in the process calls get_tx_timestamp(t).
Call ==
    /\ pc = "caller"
    /\ rpc = "idle"
    /\ Len(callLog) < MaxCalls
    /\ \E t \in Txids : GetTxTimestampEnter(t)
    /\ UNCHANGED <<tx_timestamp_cache, callLog, reportVars>>

\* The caller receives the result.
Return ==
    /\ pc = "caller"
    /\ rpc = "returned"
    /\ callLog' = Append(callLog, [txid |-> txid, ret |-> ret, ext |-> Len(resps)])
    /\ FrameReset
    /\ UNCHANGED <<tx_timestamp_cache, reportVars>>

InitCommon ==
    /\ tx_timestamp_cache = [t \in Txids |-> NoneVal]
    /\ rpc = "idle"
    /\ txid = NoTxid
    /\ attempt = 0
    /\ ret = NoneVal
    /\ resps = <<>>
    /\ slept = <<>>
    /\ callLog = <<>>
    /\ chanLog = <<>>
    /\ event = [peer_alias_in |-> "", peer_alias_out |-> "", fee_msat |-> NoneVal]
    /\ nEvents = 0
    /\ seen = <<>>
    /\ peer_data = <<>>
    /\ sorted_peers = <<>>

InitResolver == InitCommon /\ pc = "caller"

NextResolver ==
    \/ Call
    \/ AttemptRequestException
    \/ AttemptConfirmed
    \/ AttemptNotConfirmed
    \/ AttemptUncaught
    \/ Return

SpecResolver == InitResolver /\ [][NextResolver]_vars

\* ================================== process_channel_and_forwarding_data

RECURSIVE RunLoop(_, _, _, _)
\* The retry loop of get_tx_timestamp(t) run from attempt a against the answers
\* rs, one per external call: where it ends, what it returns and the cache it
\* leaves. left is what remains of rs when the call is over.
RunLoop(cache, t, a, rs) ==
    IF rs = <<>>
    THEN [rpc |-> "attempt", ret |-> NoneVal, cache |-> cache, left |-> 0]
    ELSE LET o == AttemptStep(cache, t, a, Head(rs))
         IN  IF o.rpc = "attempt"
             THEN RunLoop(o.cache, t, o.attempt, Tail(rs))
             ELSE [rpc |-> o.rpc, ret |-> o.ret, cache |-> o.cache,
                   left |-> Len(rs) - 1]

\* The whole call get_tx_timestamp(t), as the channel loop makes it.
GetTxTimestamp(cache, t, rs) ==
    IF InCache(cache, t)
    THEN [rpc |-> "returned", ret |-> cache[t], cache |-> cache, left |-> Len(rs)]
    ELSE RunLoop(cache, t, 0, rs)

\* The answers of the lookup service to one call: n failed lookups, then last.
ResponseRun(t, n, last) ==
    [i \in 1..n |-> [kind |-> "transport_error", block_time |-> BlockTime(t)]]
        \o <<last>>

\* `if x:` for an alias
Truthy(x) == x # ""

\* int(v) inside try/except (ValueError, TypeError): the integer, or 0 when int()
\* raises (a string that is no number, None)
CoerceInt(v) == IF v.k = "int" THEN v.v ELSE 0

\* channel_point.split(':')[0]
SplitTxid(cp) == cp.txid

\* (current_time_utc - tx_timestamp).total_seconds() when a timestamp came back,
\* else the 0 channel_age_seconds starts with
ChannelAgeSeconds(tx_timestamp) ==
    IF tx_timestamp.k = "dt" THEN current_time_utc - tx_timestamp.v ELSE 0

\* alias in peer_data
Has(pd, alias) == \E i \in 1..Len(pd) : pd[i].alias = alias

\* the place of peer_data[alias] in the insertion order
IndexOf(pd, alias) == CHOOSE i \in 1..Len(pd) : pd[i].alias = alias

\* peer_data[alias] = {...}: a new key goes last in the insertion order
DictInsert(pd, entry) == Append(pd, entry)

\* the entry a channel record creates
NewFromChannel(alias, age, balance) ==
    [alias |-> alias, total_channel_age_seconds |-> age, forwards |-> 0,
     total_fees_msat |-> 0, is_open |-> TRUE, local_balance |-> balance]

\* a faulty variant of NewFromForward: a peer first seen in a forwarding event is marked open
NewFromForwardOpen(alias) ==
    [alias |-> alias, total_channel_age_seconds |-> 0, forwards |-> 0,
     total_fees_msat |-> 0, is_open |-> TRUE, local_balance |-> 0]

\* the entry a forwarding event creates
NewFromForward(alias) ==
    [alias |-> alias, total_channel_age_seconds |-> 0, forwards |-> 0,
     total_fees_msat |-> 0, is_open |-> FALSE, local_balance |-> 0]

\* a faulty variant of MergeAge: the ages of a peer's channels are added up
MergeAgeSum(existing, age) == existing + age

\* the age kept for a peer that has a channel already
MergeAge(existing, age) == IF age > existing THEN age ELSE existing

\* `if peer_alias:` create or update peer_data[peer_alias]
ChannelMerge(pd, alias, age, balance) ==
    IF ~Truthy(alias) THEN pd
    ELSE IF ~Has(pd, alias) THEN DictInsert(pd, NewFromChannel(alias, age, balance))
    ELSE LET i == IndexOf(pd, alias) IN
         [pd EXCEPT ![i] =
             [@ EXCEPT !.total_channel_age_seconds = MergeAge(@, age),
                       !.is_open = TRUE,
                       !.local_balance = @ + balance]]

\* names with name first sighted, if it is one and is new
Sighted(names, name) ==
    IF name = "" \/ (\E i \in 1..Len(names) : names[i] = name)
    THEN names ELSE Append(names, name)

\* One iteration of the channel loop on a record without channel_point.
ChannelNoPoint ==
    /\ pc = "channels"
    /\ Len(chanLog) + nEvents < MaxRecords
    /\ \E rec \in ChannelRecords :
        /\ rec.channel_point.txid = NoTxid
        /\ peer_data' = ChannelMerge(peer_data, rec.peer_alias, 0,
                                     CoerceInt(rec.local_balance))
        /\ chanLog' = Append(chanLog, [peer_alias |-> rec.peer_alias, age |-> 0,
                                        local_balance |-> rec.local_balance])
        /\ seen' = Sighted(seen, rec.peer_alias)
    /\ UNCHANGED <<tx_timestamp_cache, frameVars, callLog, pc, event, nEvents,
                   sorted_peers>>

\* the channel records whose channel_point names transaction t
RecordsOf(t) == {rec \in ChannelRecords : rec.channel_point.txid = t}

\* One iteration of the channel loop on a record with a channel_point, the call
\* of get_tx_timestamp in it returning.
ChannelResolved ==
    /\ pc = "channels"
    /\ Len(chanLog) + nEvents < MaxRecords
    /\ \E t \in Txids, n \in 0..(max_retries - 1) :
       \E last \in Responses(t) :
         LET call == GetTxTimestamp(tx_timestamp_cache, t, ResponseRun(t, n, last))
             age == ChannelAgeSeconds(call.ret)
         IN  /\ call.rpc = "returned"
             \* a miss consumes every answer; a hit consumes none
             /\ call.left = 0 \/ (InCache(tx_timestamp_cache, t) /\ n = 0)
             /\ tx_timestamp_cache' = call.cache
             /\ \E rec \in RecordsOf(t) :
                 /\ SplitTxid(rec.channel_point) = t
                 /\ peer_data' = ChannelMerge(peer_data, rec.peer_alias, age,
                                              CoerceInt(rec.local_balance))
                 /\ chanLog' = Append(chanLog, [peer_alias |-> rec.peer_alias,
                                                 age |-> age,
                                                 local_balance |-> rec.local_balance])
                 /\ seen' = Sighted(seen, rec.peer_alias)
    /\ UNCHANGED <<frameVars, callLog, pc, event, nEvents, sorted_peers>>

\* One iteration of the channel loop whose call of get_tx_timestamp raises: no
\* handler of process_channel_and_forwarding_data continues the run.
ChannelRaises ==
    /\ pc = "channels"
    /\ Len(chanLog) + nEvents < MaxRecords
    /\ \E t \in Txids, n \in 0..(max_retries - 1) :
       \E last \in Responses(t) :
         LET call == GetTxTimestamp(tx_timestamp_cache, t, ResponseRun(t, n, last))
         IN  /\ call.rpc = "raised"
             /\ call.left = 0
             /\ tx_timestamp_cache' = call.cache
             /\ RecordsOf(t) # {}
    /\ pc' = "aborted"
    /\ UNCHANGED <<frameVars, callLog, chanLog, event, nEvents, seen, peer_data,
                   sorted_peers>>

\* The channel list is exhausted: on to the forwarding history.
ChannelsEnd ==
    /\ pc = "channels"
    /\ pc' = "forwards"
    /\ UNCHANGED <<tx_timestamp_cache, frameVars, callLog, chanLog, event, nEvents,
                   seen, peer_data, sorted_peers>>

\* forwards += 1 and total_fees_msat += fee_msat for one alias, created if new
ForwardCredit(pd, alias, fee) ==
    LET pd1 == IF Has(pd, alias) THEN pd ELSE DictInsert(pd, NewFromForward(alias))
        i == IndexOf(pd1, alias)
    IN  [pd1 EXCEPT ![i] = [@ EXCEPT !.forwards = @ + 1, !.total_fees_msat = @ + fee]]

\* a faulty variant of CreditsOut: the outbound alias is credited whatever the inbound one is
CreditsOutAlways(alias_in, alias_out) == Truthy(alias_out)

\* `if peer_alias_out and peer_alias_out != peer_alias_in:`
CreditsOut(alias_in, alias_out) == Truthy(alias_out) /\ alias_out # alias_in

\* one forwarding event applied to peer_data
ForwardMerge(pd, ev) ==
    LET fee == CoerceInt(ev.fee_msat)
        pd1 == IF Truthy(ev.peer_alias_in)
               THEN ForwardCredit(pd, ev.peer_alias_in, fee) ELSE pd
    IN  IF CreditsOut(ev.peer_alias_in, ev.peer_alias_out)
        THEN ForwardCredit(pd1, ev.peer_alias_out, fee) ELSE pd1

\* One iteration of the forwarding loop.
ForwardEvent ==
    /\ pc = "forwards"
    /\ Len(chanLog) + nEvents < MaxRecords
    /\ \E ev \in ForwardingEvents :
        /\ event' = ev
        /\ peer_data' = ForwardMerge(peer_data, ev)
        /\ seen' = Sighted(Sighted(seen, ev.peer_alias_in), ev.peer_alias_out)
    /\ nEvents' = nEvents + 1
    /\ UNCHANGED <<tx_timestamp_cache, frameVars, callLog, pc, chanLog, sorted_peers>>

\* ------------------------------------------------------ metrics, ranking

RECURSIVE Gcd(_, _)
Gcd(a, b) == IF b = 0 THEN a ELSE Gcd(b, a % b)

Abs(x) == IF x < 0 THEN -x ELSE x

\* the float n / d, d > 0, in lowest terms
Rat(n, d) == LET g == Gcd(Abs(n), d) IN [n |-> n \div g, d |-> d \div g]

ZeroDivisionError == [n |-> 0, d |-> 0]

\* x / y for floats; a ZeroDivisionError raised in computing x is not caught either
RatDiv(x, y) ==
    IF x = ZeroDivisionError \/ y.n = 0 THEN ZeroDivisionError
    ELSE IF y.n > 0 THEN Rat(x.n * y.d, x.d * y.n)
    ELSE Rat(-(x.n * y.d), -(x.d * y.n))

\* x < y for floats
RatLess(x, y) == x.n * y.d < y.n * x.d

\* a faulty variant of AgeGuard: `if channel_age_days >= 0:`
AgeGuardNonNegative(channel_age_days) == ~RatLess(channel_age_days, Rat(0, 1))

\* `if channel_age_days > 0:`
AgeGuard(channel_age_days) == RatLess(Rat(0, 1), channel_age_days)

\* `if peer_local_balance > 0:`
BalanceGuard(peer_local_balance) == peer_local_balance > 0

\* the row of sorted_peers computed from one entry of peer_data
MetricsRow(data) ==
    LET peer_local_balance == data.local_balance
        channel_age_days == Rat(data.total_channel_age_seconds, SecondsPerDay)
        total_fees_earnt == Rat(data.total_fees_msat, MsatPerSat)
        fees_per_day == IF AgeGuard(channel_age_days)
                        THEN RatDiv(total_fees_earnt, channel_age_days)
                        ELSE Rat(0, 1)
        fees_per_day_sats == IF BalanceGuard(peer_local_balance)
                             THEN RatDiv(fees_per_day, Rat(peer_local_balance, 1))
                             ELSE Rat(0, 1)
    IN  [alias |-> data.alias, local_balance |-> peer_local_balance,
         forwards |-> data.forwards, total_fees_earnt |-> total_fees_earnt,
         age_days |-> channel_age_days, fees_per_day |-> fees_per_day,
         fees_per_day_sats |-> fees_per_day_sats, is_open |-> data.is_open]

\* the loop over peer_data.items(): one row per entry, in insertion order
MetricsRows(pd) == [i \in 1..Len(pd) |-> MetricsRow(pd[i])]

\* a faulty variant of InsertAt: a row goes in front of the rows with an equal key
InsertAtBeforeEqual(sorted, row) ==
    IF \E j \in 1..Len(sorted) :
           ~RatLess(row.fees_per_day_sats, sorted[j].fees_per_day_sats)
    THEN CHOOSE j \in 1..Len(sorted) :
           /\ ~RatLess(row.fees_per_day_sats, sorted[j].fees_per_day_sats)
           /\ \A h \in 1..(j - 1) :
                RatLess(row.fees_per_day_sats, sorted[h].fees_per_day_sats)
    ELSE Len(sorted) + 1

\* where a row goes among rows already in descending order: behind every row whose
\* key is not smaller, as a stable sort with reverse=True leaves it
InsertAt(sorted, row) ==
    IF \E j \in 1..Len(sorted) :
           RatLess(sorted[j].fees_per_day_sats, row.fees_per_day_sats)
    THEN CHOOSE j \in 1..Len(sorted) :
           /\ RatLess(sorted[j].fees_per_day_sats, row.fees_per_day_sats)
           /\ \A h \in 1..(j - 1) :
                ~RatLess(sorted[h].fees_per_day_sats, row.fees_per_day_sats)
    ELSE Len(sorted) + 1

RECURSIVE SortDescending(_)
\* sorted_peers.sort(key=lambda x: x['fees_per_day_sats'], reverse=True)
SortDescending(rows) ==
    IF rows = <<>> THEN <<>>
    ELSE LET n == Len(rows)
             front == SortDescending(SubSeq(rows, 1, n - 1))
             j == InsertAt(front, rows[n])
         IN  SubSeq(front, 1, j - 1) \o <<rows[n]>> \o SubSeq(front, j, Len(front))

\* a division of the metrics loop raises
MetricsRaise(rows) ==
    \E i \in 1..Len(rows) :
        \/ rows[i].fees_per_day = ZeroDivisionError
        \/ rows[i].fees_per_day_sats = ZeroDivisionError

\* The forwarding list is exhausted: the metrics loop and the sort. A
\* ZeroDivisionError in the loop would end the run, no handler catching it.
RankPeers ==
    /\ pc = "forwards"
    /\ LET rows == MetricsRows(peer_data)
       IN  IF MetricsRaise(rows)
           THEN pc' = "zero_division" /\ sorted_peers' = sorted_peers
           ELSE pc' = "done" /\ sorted_peers' = SortDescending(rows)
    /\ UNCHANGED <<tx_timestamp_cache, frameVars, callLog, chanLog, event, nEvents,
                   seen, peer_data>>

Init == InitCommon /\ pc = "channels"

Next ==
    \/ ChannelNoPoint
    \/ ChannelResolved
    \/ ChannelRaises
    \/ ChannelsEnd
    \/ ForwardEvent
    \/ RankPeers

Spec == Init /\ [][Next]_vars

\* ================================================================ claims

\* ---- get_tx_timestamp (SpecResolver)

\* the pairs of returned calls, the earlier first, made for the same txid
SameTxidPairs ==
    {p \in (1..Len(callLog)) \X (1..Len(callLog)) :
        p[1] < p[2] /\ callLog[p[1]].txid = callLog[p[2]].txid}

\* C1 as stated: two calls of get_tx_timestamp for the same txid issue at most one
\* external call between them and return the same result, whatever the lookup
\* service answers.
C1_TwoCallsOneLookup ==
    \A p \in SameTxidPairs :
        /\ callLog[p[1]].ext + callLog[p[2]].ext <= 1
        /\ callLog[p[1]].ret = callLog[p[2]].ret

\* C1 amended: once a call for a txid has returned a timestamp, a later call for
\* that txid issues no external call and returns the same timestamp.
C1_TimestampIsCached ==
    \A p \in SameTxidPairs :
        callLog[p[1]].ret.k = "dt" =>
            /\ callLog[p[2]].ext = 0
            /\ callLog[p[2]].ret = callLog[p[1]].ret

C1_Witness ==
    \E p \in SameTxidPairs :
        /\ callLog[p[1]].ret.k = "dt"
        /\ callLog[p[1]].ext >= 1
        /\ callLog[p[2]].ext = 0

\* C2: no exception leaves get_tx_timestamp, whatever the lookup answers: the call
\* never ends raising.
C2_NeverRaises == rpc # "raised"

\* every external call of the current call failed with a transport error or a
\* non-success status
AllLookupsFailed ==
    /\ resps # <<>>
    /\ \A i \in 1..Len(resps) : resps[i] \in {"transport_error", "http_error"}

\* C3: a call whose every lookup fails makes exactly 3 external attempts: it goes
\* on while it has made fewer, returns None on the third, and never raises.
C3_ThreeAttemptsThenNone ==
    AllLookupsFailed =>
        /\ Len(resps) <= 3
        /\ rpc # "raised"
        /\ Len(resps) < 3 => rpc = "attempt"
        /\ Len(resps) = 3 => rpc = "returned" /\ ret = NoneVal

C3_Witness == AllLookupsFailed /\ Len(resps) = 3 /\ rpc = "returned"

\* C4: a call whose first lookup answers "unconfirmed" returns None after that one
\* external attempt, without sleeping and without another attempt.
C4_UnconfirmedNoRetry ==
    (resps # <<>> /\ resps[1] = "unconfirmed") =>
        /\ Len(resps) = 1
        /\ rpc = "returned"
        /\ ret = NoneVal
        /\ slept = <<>>

C4_Witness == resps = <<"unconfirmed">> /\ rpc = "returned" /\ ret = NoneVal

\* ---- process_channel_and_forwarding_data (Spec)

\* the channel records iterated so far that carry name
ChannelsOf(name) == {i \in 1..Len(chanLog) : chanLog[i].peer_alias = name}

RECURSIVE SumBalances(_)
\* the sum of the coerced local balances of the records I of chanLog
SumBalances(I) ==
    IF I = {} THEN 0
    ELSE LET i == CHOOSE x \in I : TRUE
         IN  CoerceInt(chanLog[i].local_balance) + SumBalances(I \ {i})

\* the largest age among the records I of chanLog
MaxAge(I) == CHOOSE a \in {chanLog[i].age : i \in I} : \A i \in I : chanLog[i].age <= a

\* C5: every name carried by a channel record has an aggregate whose age is the
\* maximum of the ages of the records with that name and whose local balance is
\* the sum of their coerced local balances.
C5_MaxAgeSumBalance ==
    \A name \in Aliases :
        ChannelsOf(name) # {} =>
            /\ Has(peer_data, name)
            /\ LET data == peer_data[IndexOf(peer_data, name)]
               IN  /\ data.total_channel_age_seconds = MaxAge(ChannelsOf(name))
                   /\ data.local_balance = SumBalances(ChannelsOf(name))

C5_Witness ==
    /\ pc = "forwards"
    /\ \E i, j \in 1..Len(chanLog) :
        /\ i < j
        /\ chanLog[i].peer_alias = chanLog[j].peer_alias
        /\ chanLog[i].peer_alias # ""
        /\ chanLog[i].age > 0 /\ chanLog[j].age > 0
        /\ CoerceInt(chanLog[i].local_balance) # 0
        /\ CoerceInt(chanLog[j].local_balance) # 0

\* forwards and total_fees_msat of name in pd, 0 when pd has no such entry
ForwardsOf(pd, name) == IF Has(pd, name) THEN pd[IndexOf(pd, name)].forwards ELSE 0
FeesOf(pd, name) == IF Has(pd, name) THEN pd[IndexOf(pd, name)].total_fees_msat ELSE 0

\* name gains exactly one forward and one fee in the step
CreditedOnce(name, fee) ==
    /\ ForwardsOf(peer_data', name) = ForwardsOf(peer_data, name) + 1
    /\ FeesOf(peer_data', name) = FeesOf(peer_data, name) + fee

\* C6: an iteration of the forwarding loop on an event with the same non-empty
\* name inbound and outbound credits that name one forward and one fee; on an
\* event with two different non-empty names it credits each of them one forward
\* and one fee.
C6_ForwardCredits ==
    [][nEvents' = nEvents + 1 =>
          LET alias_in == event'.peer_alias_in
              alias_out == event'.peer_alias_out
              fee == CoerceInt(event'.fee_msat)
          IN  (alias_in # "" /\ alias_out # "") =>
                  CreditedOnce(alias_in, fee) /\ CreditedOnce(alias_out, fee)]_vars

C6_Witness ==
    /\ nEvents = 1
    /\ event.peer_alias_in = "a" /\ event.peer_alias_out = "a"
    /\ CoerceInt(event.fee_msat) # 0
    /\ ForwardsOf(peer_data, "a") = 1
    /\ FeesOf(peer_data, "a") = CoerceInt(event.fee_msat)

\* C7: every aggregate has a non-negative age, local balance, forward count and
\* fee total, in every state of the aggregation.
C7_NonNegative ==
    \A i \in 1..Len(peer_data) :
        /\ peer_data[i].total_channel_age_seconds >= 0
        /\ peer_data[i].local_balance >= 0
        /\ peer_data[i].forwards >= 0
        /\ peer_data[i].total_fees_msat >= 0

\* is_open of name in pd, FALSE when pd has no such entry
IsOpen(pd, name) == Has(pd, name) /\ pd[IndexOf(pd, name)].is_open

\* C8: an aggregate is open exactly when a channel record carried its name (so one
\* seen in forwarding events only is not), and an open aggregate stays open.
C8_OpenIffChannel ==
    /\ [](\A i \in 1..Len(peer_data) :
            peer_data[i].is_open <=> ChannelsOf(peer_data[i].alias) # {})
    /\ [][\A name \in Aliases : IsOpen(peer_data, name) => IsOpen(peer_data', name)]_vars

C8_Witness ==
    /\ pc = "done"
    /\ \E i, j \in 1..Len(peer_data) :
        /\ peer_data[i].is_open
        /\ peer_data[i].forwards > 0
        /\ ~peer_data[j].is_open

\* C9: the metrics step divides by zero for no aggregate; an aggregate of age 0
\* gets fees_per_day 0 and one of local balance 0 gets fees_per_day_sats 0.
C9_DivisionGuards ==
    /\ pc # "zero_division"
    /\ pc = "done" =>
        /\ Len(sorted_peers) = Len(peer_data)
        /\ \A i \in 1..Len(peer_data) :
            \E j \in 1..Len(sorted_peers) :
                /\ sorted_peers[j].alias = peer_data[i].alias
                /\ sorted_peers[j].fees_per_day # ZeroDivisionError
                /\ sorted_peers[j].fees_per_day_sats # ZeroDivisionError
                /\ peer_data[i].total_channel_age_seconds = 0
                       => sorted_peers[j].fees_per_day.n = 0
                /\ peer_data[i].local_balance = 0
                       => sorted_peers[j].fees_per_day_sats.n = 0

C9_Witness ==
    /\ pc = "done"
    /\ \E i, j \in 1..Len(peer_data) :
        /\ peer_data[i].total_channel_age_seconds = 0
        /\ peer_data[i].total_fees_msat # 0
        /\ peer_data[j].local_balance = 0
        /\ peer_data[j].total_channel_age_seconds > 0
        /\ peer_data[j].total_fees_msat # 0

\* the place of name in the order of first sighting
SeenAt(name) == CHOOSE i \in 1..Len(seen) : seen[i] = name

\* C10: the rows are the peers sighted, in non-increasing order of
\* fees_per_day_sats, rows with equal fees_per_day_sats in the order their names
\* were first sighted (channel records, then forwarding events).
C10_DescendingStable ==
    pc = "done" =>
        /\ Len(sorted_peers) = Len(seen)
        /\ \A i \in 1..Len(seen) : \E j \in 1..Len(sorted_peers) :
               sorted_peers[j].alias = seen[i]
        /\ \A i, j \in 1..Len(sorted_peers) :
            i < j =>
                /\ ~RatLess(sorted_peers[i].fees_per_day_sats,
                            sorted_peers[j].fees_per_day_sats)
                /\ sorted_peers[i].fees_per_day_sats = sorted_peers[j].fees_per_day_sats
                       => SeenAt(sorted_peers[i].alias) < SeenAt(sorted_peers[j].alias)

C10_Witness ==
    /\ pc = "done"
    /\ Len(sorted_peers) = 3
    /\ \A i \in 1..3 : sorted_peers[i].fees_per_day_sats = sorted_peers[1].fees_per_day_sats
    /\ seen[1] # "a"

====
